---- MODULE Spec2Model ----
(***************************************************************************)
(* Bill payment reconciliation of the energy-monitoring application:       *)
(* the Billing page (src/src/pages/PaymentHistory.jsx), the Razorpay       *)
(* frontend utilities (src/unnamed/part_002), the Express payment server   *)
(* (src/unnamed/part_001) and the bills / payments tables                  *)
(* (src/unnamed/part_000, src/supabase-payments-update.sql).               *)
(*                                                                         *)
(* Two Billing pages of the same user run against one store, one gateway   *)
(* and one payment server.  Every await of a handler is a step boundary.   *)
(***************************************************************************)
EXTENDS Integers, Sequences, FiniteSets, TLC

----------------------------------------------------------------------------
(* Bounds *)

\* handlePayment invocations that get past the guards, over all pages
MaxAttempts == 2
\* webhook requests received by the server
MaxWebhooks == 2
\* largest predicted monthly bill, in rupees, that the generation is run on
MaxTotal == 30

----------------------------------------------------------------------------
(* Values *)

Pages == {"pg1", "pg2"}

\* B1: a bill imported into the store; AI: the bill fetchBill generates for
\* the current month (bill_number AI-<user>-<month>)
BillIds == {"B1", "AI"}

\* .order('bill_month', { ascending: false }): the current month comes first
BillsByMonthDesc == <<"AI", "B1">>

NoId == "undefined"
\* a request field or header that was not sent
Missing == <<>>
None == "none"

\* process.env.RAZORPAY_KEY_SECRET, and a key the gateway never used
KeySecret == "key_secret"
ForgerKey == "forger_key"

\* process.env.RAZORPAY_KEY_ID, the public key id
KeyId == "rzp_key_id"

\* the secret the gateway signs webhooks with; the server's
\* RAZORPAY_WEBHOOK_SECRET is either this or unset
GatewayWebhookSecret == "whsec"
NoSecret == "unset"

\* the credentials that must stay on the server
Secrets == {KeySecret, GatewayWebhookSecret}

\* energyData.prediction.monthlyBill values seen by fetchBill
PredictedBills == {250}

\* a bill id without a row in the store
AbsentRow ==
  [status |-> "absent", total_amount |-> 0, energy_charges |-> 0,
   fixed_charges |-> 0, tax_amount |-> 0, other_charges |-> 0]

\* billData === null
NoBill ==
  [present |-> FALSE, id |-> NoId, status |-> "", totalAmount |-> 0,
   isAIEstimate |-> FALSE]

ImportedBill ==
  [status |-> "unpaid", total_amount |-> 1375, energy_charges |-> 1100,
   fixed_charges |-> 75, tax_amount |-> 200, other_charges |-> 0]

OrderIds == 1..MaxAttempts
\* the gateway captures at most one payment per order: pay_k belongs to order_k
PayIds == 1..MaxAttempts

Events == {"payment.captured", "payment.failed", "order.paid", "invoice.paid"}

MsgVerificationFailed == "Failed to record payment. Please contact support."
MsgCancelled == "Payment cancelled by user"
MsgGatewayFailed == "Payment failed"
MsgDeclined == "Your payment was declined by the bank"
MsgSdk == "Failed to load Razorpay SDK"
MsgKey == "Failed to get Razorpay configuration"
MsgAmount == "Amount must be greater than 0"
MsgUpstream == "upstream error"
MsgCreate == "Failed to create order"
MsgEstimate == "Cannot pay this estimate. Please try refreshing the page."
MsgNoData == "Energy data not available. Please try again later."
MsgNoUnpaid == "No unpaid bills available."

----------------------------------------------------------------------------
(* Pure functions *)

\* crypto.createHmac('sha256', key).update(msg).digest('hex'): a digest that
\* differs whenever the key or the message differs
HMAC(key, msg) == <<"hmac", key, msg>>

\* a hex digest with one character changed
FlipBit(digest) == <<"flipped", digest[2], digest[3]>>

\* razorpay_order_id + '|' + razorpay_payment_id
SignString(orderId, paymentId) == <<orderId, "|", paymentId>>

\* Math.round replaced by truncation
RoundDown(x, num, den) == (x * num) \div den

\* Math.round(x * num / den) for non-negative integers
RoundRatio(x, num, den) == (2 * x * num + den) \div (2 * den)


\* !x for a number or an identifier of the request body: identifiers are
\* numbered from 1, an absent one reads as 0
FalsyId(x) == x = 0

\* the amount of a create-order request body: a JSON number held in
\* thousandths of a rupee, or no amount at all
Number(milli) == [present |-> TRUE, milli |-> milli]
NoAmount == [present |-> FALSE, milli |-> 0]
\* a whole number of rupees, as billData.totalAmount
Rupees(n) == Number(n * 1000)

\* !amount
FalsyAmount(amount) == ~amount.present \/ amount.milli = 0

\* amounts sent to create-order: none, zero, negative, below half a paisa,
\* above half a paisa, and rupee amounts with two decimals.  None of them
\* times 100 lies next to a half, where the double product and the decimal
\* product could round differently
RequestAmounts ==
  {NoAmount, Number(0), Number(-10), Number(4), Number(6), Number(13750),
   Number(1375500)}

\* JSON.parse of a raw request body (express.json()): the object the text
\* denotes; insignificant whitespace and escape choices are not part of it
JSONparse(raw) == [event |-> raw.event, id |-> raw.id]

\* JSON.stringify of an object: the one compact text of the object
JSONstringify(obj) == [event |-> obj.event, id |-> obj.id, form |-> "compact"]

\* raw webhook bodies: the text of {event, payload.payment.entity.id} either
\* compact (as JSON.stringify writes it) or with other byte-level spelling
RawForms == {"compact", "spaced"}
RawBodies == [event : Events, id : PayIds, form : RawForms]

----------------------------------------------------------------------------
(* Payment server, src/unnamed/part_001 *)

\* verify-payment without the check for missing fields
VerifyPaymentEndpointNoFieldCheck(orderId, paymentId, signature) ==
  LET expectedSignature == HMAC(KeySecret, SignString(orderId, paymentId))
      isValid == expectedSignature = signature
  IN IF isValid
     THEN [status |-> 200, success |-> TRUE, verified |-> TRUE]
     ELSE [status |-> 400, success |-> FALSE, verified |-> FALSE]

\* verify-payment with the expected signature computed from the order id
\* alone
VerifyPaymentEndpointOrderOnly(orderId, paymentId, signature) ==
  IF FalsyId(orderId) \/ FalsyId(paymentId) \/ signature = Missing
  THEN [status |-> 400, success |-> FALSE, verified |-> Missing]
  ELSE LET expectedSignature == HMAC(KeySecret, SignString(orderId, orderId))
           isValid == expectedSignature = signature
       IN IF isValid
          THEN [status |-> 200, success |-> TRUE, verified |-> TRUE]
          ELSE [status |-> 400, success |-> FALSE, verified |-> FALSE]

\* POST /api/razorpay/verify-payment
VerifyPaymentEndpoint(orderId, paymentId, signature) ==
  IF FalsyId(orderId) \/ FalsyId(paymentId) \/ signature = Missing
  THEN [status |-> 400, success |-> FALSE, verified |-> Missing]
  ELSE LET expectedSignature == HMAC(KeySecret, SignString(orderId, paymentId))
           isValid == expectedSignature = signature
       IN IF isValid
          THEN [status |-> 200, success |-> TRUE, verified |-> TRUE]
          ELSE [status |-> 400, success |-> FALSE, verified |-> FALSE]

\* POST /api/razorpay/webhook, signature check: TRUE when the request goes on
\* to the event switch
WebhookSignaturePasses(webhookSecret, raw, webhookSignature) ==
  IF webhookSecret # NoSecret
  THEN LET expectedSignature == HMAC(webhookSecret, JSONstringify(JSONparse(raw)))
       IN webhookSignature = expectedSignature
  ELSE TRUE

\* POST /api/razorpay/create-order: validation and the gateway call; gatewayOk
\* says whether razorpay.orders.create succeeded
\* create-order that validates the amount with !amount alone
CreateOrderEndpointNoSignCheck(amount, notes, gatewayOk) ==
  IF FalsyAmount(amount)
  THEN [status |-> 400, success |-> FALSE, message |-> MsgAmount,
        asked |-> <<>>, created |-> <<>>, amount |-> 0]
  ELSE LET options == [amount |-> RoundRatio(amount.milli, 100, 1000),
                       notes |-> notes]
       IN IF gatewayOk
          THEN [status |-> 200, success |-> TRUE, message |-> "",
                asked |-> <<options>>, created |-> <<options>>,
                amount |-> options.amount]
          ELSE [status |-> 500, success |-> FALSE, message |-> MsgUpstream,
                asked |-> <<options>>, created |-> <<>>, amount |-> 0]

\* asked: the options of each razorpay.orders.create call the handler made;
\* created: the orders the gateway created; amount: order.amount of the
\* response body
CreateOrderEndpoint(amount, notes, gatewayOk) ==
  IF FalsyAmount(amount) \/ amount.milli <= 0
  THEN [status |-> 400, success |-> FALSE, message |-> MsgAmount,
        asked |-> <<>>, created |-> <<>>, amount |-> 0]
  ELSE LET options == [amount |-> RoundRatio(amount.milli, 100, 1000),
                       notes |-> notes]
       IN IF gatewayOk
          THEN [status |-> 200, success |-> TRUE, message |-> "",
                asked |-> <<options>>, created |-> <<options>>,
                amount |-> options.amount]
          ELSE [status |-> 500, success |-> FALSE, message |-> MsgUpstream,
                asked |-> <<options>>, created |-> <<>>, amount |-> 0]

\* GET /api/health
HealthEndpoint ==
  [status |-> 200,
   body |-> [status |-> "ok", timestamp |-> "now",
             razorpay_configured |-> (KeyId # NoSecret /\ KeySecret # NoSecret)]]

\* the key endpoint handing out the whole credential pair
KeyEndpointWithSecret ==
  [status |-> 200, body |-> [key_id |-> KeyId, key_secret |-> KeySecret]]

\* GET /api/razorpay/key
KeyEndpoint == [status |-> 200, body |-> [key_id |-> KeyId]]

----------------------------------------------------------------------------
(* Frontend utilities, src/unnamed/part_002 *)

\* verifyPaymentSignature that lets a refused verification pass as well
verifyPaymentSignatureLenient(net, orderId, paymentId, signature) ==
  IF net = "down"
  THEN TRUE
  ELSE LET data == VerifyPaymentEndpoint(orderId, paymentId, signature)
       IN IF data.status # 200 \/ ~data.success THEN TRUE ELSE data.verified

\* verifyPaymentSignature: net = "down" is a fetch that throws
verifyPaymentSignature(net, orderId, paymentId, signature) ==
  IF net = "down"
  THEN TRUE
  ELSE LET data == VerifyPaymentEndpoint(orderId, paymentId, signature)
       IN IF data.status # 200 \/ ~data.success THEN FALSE ELSE data.verified

\* createOrder that sends the request again after a failure
createOrderRetrying(amount, notes, gatewayOk) ==
  LET data == CreateOrderEndpoint(amount, notes, gatewayOk)
  IN [requests |-> IF data.status # 200 \/ ~data.success
                   THEN <<data, data>> ELSE <<data>>,
      threw |-> data.status # 200 \/ ~data.success,
      message |-> IF data.message # "" THEN data.message ELSE MsgCreate,
      amount |-> data.amount]

\* createOrder: the create-order requests it sends (each with the server's
\* answer), whether it throws and with what message, and order.amount
createOrder(amount, notes, gatewayOk) ==
  LET data == CreateOrderEndpoint(amount, notes, gatewayOk)
  IN [requests |-> <<data>>,
      threw |-> data.status # 200 \/ ~data.success,
      message |-> IF data.message # "" THEN data.message ELSE MsgCreate,
      amount |-> data.amount]

----------------------------------------------------------------------------
(* State *)

VARIABLES
  bills,          \* store, table bills: [BillIds -> row or Absent]
  payments,       \* store, table payments: sequence of rows, in insert order
  orders,         \* gateway: orders created, order id = position
  captured,       \* gateway: <<order id, payment id>> of captured payments
  webhookSecret,  \* server: process.env.RAZORPAY_WEBHOOK_SECRET
  whCount,        \* server: webhook requests received
  whLast,         \* server: the last webhook request and its response
  whCaptured,     \* server log: 'Payment captured' lines per payment id
  apiLast,        \* server: the last request made to it directly, and the answer
  attempts,       \* handlePayment invocations that passed the guards
  billHistory,    \* page state billHistory: rows of the last load
  useAIEstimate,  \* page state useAIEstimate
  billData,       \* page state billData
  error,          \* page state error
  paymentLoading, \* page state paymentLoading
  paymentSuccess, \* page state paymentSuccess
  timers,         \* page: pending setTimeout callbacks of onSuccess
  pc,             \* page: where the payment attempt of the page stands
  closure,        \* page: billData as captured by the running handlePayment
  order,          \* page: the order the checkout modal was opened for
  resp,           \* page: razorpayResponse handed to onSuccess
  verifyOutcome,  \* page: what the verify-payment request came back with
  paymentError,   \* page: paymentError of the payments insert in onSuccess
  billUpdateError \* page: billUpdateError of the bills update in onSuccess

store == <<bills, payments>>
gateway == <<orders, captured>>
server == <<webhookSecret, whCount, whLast, whCaptured, apiLast>>
pageView == <<billHistory, useAIEstimate, billData, error, paymentLoading,
              paymentSuccess, timers>>
attempt == <<attempts, pc, closure, order, resp, verifyOutcome, paymentError,
             billUpdateError>>
vars == <<store, gateway, server, pageView, attempt>>

NoResp == [razorpay_order_id |-> 0, razorpay_payment_id |-> 0,
           razorpay_signature |-> Missing]
NoExchange == [endpoint |-> None, request |-> <<>>, response |-> <<>>]
NoRequest == [raw |-> [event |-> None, id |-> 0, form |-> None], signature |-> Missing, status |-> 0, event |-> None]

\* the page's useState defaults, no payment, order or request yet
Constructed ==
  /\ payments = <<>>
  /\ orders = <<>>
  /\ captured = {}
  /\ webhookSecret \in {GatewayWebhookSecret, NoSecret}
  /\ whCount = 0
  /\ whLast = NoRequest
  /\ whCaptured = [p \in PayIds |-> 0]
  /\ apiLast = NoExchange
  /\ attempts = 0
  /\ billHistory = [s \in Pages |-> <<>>]
  /\ useAIEstimate = [s \in Pages |-> FALSE]
  /\ billData = [s \in Pages |-> NoBill]
  /\ error = [s \in Pages |-> ""]
  /\ paymentLoading = [s \in Pages |-> FALSE]
  /\ paymentSuccess = [s \in Pages |-> FALSE]
  /\ timers = [s \in Pages |-> 0]
  /\ pc = [s \in Pages |-> "idle"]
  /\ closure = [s \in Pages |-> NoBill]
  /\ order = [s \in Pages |-> 0]
  /\ resp = [s \in Pages |-> NoResp]
  /\ verifyOutcome = [s \in Pages |-> None]
  /\ paymentError = [s \in Pages |-> None]
  /\ billUpdateError = [s \in Pages |-> None]

\* the store holds the imported bill of the month or no bill, and nothing
\* has run yet
Init ==
  /\ bills \in {[b \in BillIds |-> IF b = "B1" THEN r ELSE AbsentRow] :
                 r \in {ImportedBill, AbsentRow}}
  /\ Constructed

----------------------------------------------------------------------------
(* Billing page, src/src/pages/PaymentHistory.jsx *)

\* supabase.from('bills').select('*').order('bill_month', desc)
SelectBills(b) ==
  LET Row(i) == [id |-> BillsByMonthDesc[i],
                 status |-> b[BillsByMonthDesc[i]].status,
                 total_amount |-> b[BillsByMonthDesc[i]].total_amount]
      F[i \in 0..Len(BillsByMonthDesc)] ==
        IF i = 0 THEN <<>>
        ELSE IF b[BillsByMonthDesc[i]].status = "absent" THEN F[i - 1]
        ELSE Append(F[i - 1], Row(i))
  IN F[Len(BillsByMonthDesc)]

\* loadBillHistory: the page's billHistory and useAIEstimate afterwards
loadBillHistory(s, b, ok) ==
  IF ~ok
  THEN [billHistory |-> billHistory[s], useAIEstimate |-> useAIEstimate[s]]
  ELSE IF Len(SelectBills(b)) > 0
  THEN [billHistory |-> SelectBills(b), useAIEstimate |-> FALSE]
  ELSE [billHistory |-> <<>>, useAIEstimate |-> TRUE]

\* useEffect on mount: loadBillHistory()
MountLoad(s, ok) ==
  /\ billHistory[s] = <<>>
  /\ ~useAIEstimate[s]
  /\ billHistory' = [billHistory EXCEPT ![s] = loadBillHistory(s, bills, ok).billHistory]
  /\ useAIEstimate' = [useAIEstimate EXCEPT ![s] = loadBillHistory(s, bills, ok).useAIEstimate]
  /\ UNCHANGED <<store, gateway, server, attempt, billData, error,
                 paymentLoading, paymentSuccess, timers>>

\* billHistory.find(b => b.status === 'unpaid'): position, 0 when none
FindUnpaid(hist) ==
  LET G[i \in 0..Len(hist)] ==
        IF i = Len(hist) THEN 0
        ELSE IF hist[i + 1].status = "unpaid" THEN i + 1 ELSE G[i + 1]
  IN G[0]

\* the row with every charge rounded on its own
GeneratedBillRoundedTax(monthlyBill) ==
  LET totalAmount == monthlyBill
      energyCharges == RoundRatio(totalAmount, 85, 100)
      fixedCharges == RoundRatio(totalAmount, 5, 100)
      taxAmount == RoundRatio(totalAmount, 10, 100)
  IN [status |-> "unpaid", total_amount |-> totalAmount,
      energy_charges |-> energyCharges, fixed_charges |-> fixedCharges,
      tax_amount |-> taxAmount, other_charges |-> 0]

\* the row fetchBill inserts for an AI-generated bill
GeneratedBill(monthlyBill) ==
  LET totalAmount == monthlyBill
      energyCharges == RoundRatio(totalAmount, 85, 100)
      fixedCharges == RoundRatio(totalAmount, 5, 100)
      taxAmount == totalAmount - energyCharges - fixedCharges
  IN [status |-> "unpaid", total_amount |-> totalAmount,
      energy_charges |-> energyCharges, fixed_charges |-> fixedCharges,
      tax_amount |-> taxAmount, other_charges |-> 0]

\* an insert that replaces the row of the same bill_number
UpsertBill(b, id, row, storeOk) ==
  IF storeOk
  THEN [billError |-> FALSE, rows |-> [b EXCEPT ![id] = row]]
  ELSE [billError |-> TRUE, rows |-> b]

\* supabase.from('bills').insert(row): bill_number is UNIQUE, so the insert
\* returns an error when the bill of that number is stored already, and the
\* store itself may fail
InsertBill(b, id, row, storeOk) ==
  IF storeOk /\ b[id].status = "absent"
  THEN [billError |-> FALSE, rows |-> [b EXCEPT ![id] = row]]
  ELSE [billError |-> TRUE, rows |-> b]

\* fetchBill, the branch that generates the bill of the current month
FetchBillAI(s, dataAvailable, monthlyBill, storeOk, loadOk) ==
  /\ ~billData[s].present
  /\ useAIEstimate[s] \/ Len(billHistory[s]) = 0
  /\ IF ~dataAvailable
     THEN /\ error' = [error EXCEPT ![s] = MsgNoData]
          /\ billData' = [billData EXCEPT ![s] = NoBill]
          /\ UNCHANGED <<bills, billHistory, useAIEstimate>>
     ELSE IF ~InsertBill(bills, "AI", GeneratedBill(monthlyBill), storeOk).billError
     THEN /\ bills' = InsertBill(bills, "AI", GeneratedBill(monthlyBill), storeOk).rows
          /\ billHistory' = [billHistory EXCEPT ![s] =
                               loadBillHistory(s, bills', loadOk).billHistory]
          /\ useAIEstimate' = [useAIEstimate EXCEPT ![s] =
                                 loadBillHistory(s, bills', loadOk).useAIEstimate]
          /\ billData' = [billData EXCEPT ![s] =
                            [present |-> TRUE, id |-> "AI",
                             status |-> bills'["AI"].status,
                             totalAmount |-> bills'["AI"].total_amount,
                             isAIEstimate |-> TRUE]]
          /\ error' = [error EXCEPT ![s] = ""]
     ELSE /\ billData' = [billData EXCEPT ![s] =
                            [present |-> TRUE, id |-> NoId, status |-> "unpaid",
                             totalAmount |-> GeneratedBill(monthlyBill).total_amount,
                             isAIEstimate |-> TRUE]]
          /\ error' = [error EXCEPT ![s] = ""]
          /\ UNCHANGED <<bills, billHistory, useAIEstimate>>
  /\ UNCHANGED <<payments, gateway, server, attempt, paymentLoading,
                 paymentSuccess, timers>>

\* fetchBill(), the branch that shows the most recent unpaid bill
FetchBillStored(s) ==
  /\ ~billData[s].present
  /\ ~(useAIEstimate[s] \/ Len(billHistory[s]) = 0)
  /\ LET i == FindUnpaid(billHistory[s])
     IN IF i = 0
        THEN /\ error' = [error EXCEPT ![s] = MsgNoUnpaid]
             /\ billData' = [billData EXCEPT ![s] = NoBill]
        ELSE /\ error' = [error EXCEPT ![s] = ""]
             /\ billData' = [billData EXCEPT ![s] =
                               [present |-> TRUE, id |-> billHistory[s][i].id,
                                status |-> billHistory[s][i].status,
                                totalAmount |-> billHistory[s][i].total_amount,
                                isAIEstimate |-> FALSE]]
  /\ UNCHANGED <<store, gateway, server, attempt, billHistory, useAIEstimate,
                 paymentLoading, paymentSuccess, timers>>

\* the 'Fetch New Bill' / 'Back' button: setBillData(null)
ClearBill(s) ==
  /\ billData[s].present
  /\ billData' = [billData EXCEPT ![s] = NoBill]
  /\ UNCHANGED <<store, gateway, server, attempt, billHistory, useAIEstimate,
                 error, paymentLoading, paymentSuccess, timers>>

\* the attempt of page s is over: nothing refers to its closure any more;
\* the last razorpayResponse stays in the console log
EndAttempt(s) ==
  /\ pc' = [pc EXCEPT ![s] = "idle"]
  /\ closure' = [closure EXCEPT ![s] = NoBill]
  /\ order' = [order EXCEPT ![s] = 0]
  /\ UNCHANGED resp

\* onFailure that drops the message
onFailureQuiet(s, message) ==
  /\ error' = error
  /\ paymentLoading' = [paymentLoading EXCEPT ![s] = FALSE]

\* onFailure that leaves the page loading
onFailureStillLoading(s, message) ==
  /\ error' = [error EXCEPT ![s] = message]
  /\ paymentLoading' = paymentLoading

\* onFailure of handlePayment: setError(error.message), setPaymentLoading(false)
onFailure(s, message) ==
  /\ error' = [error EXCEPT ![s] = message]
  /\ paymentLoading' = [paymentLoading EXCEPT ![s] = FALSE]

\* initiateRazorpayPayment up to rzp.open(): loadRazorpayScript, getRazorpayKey
\* and createOrder in turn; the first that fails throws into the catch, which
\* calls onFailure.  The message of the failure, "" when the modal opens
InitiateFailure(sdkLoaded, keyOk, data) ==
  IF ~sdkLoaded THEN MsgSdk
  ELSE IF ~keyOk THEN MsgKey
  ELSE IF data.status # 200 \/ ~data.success THEN data.message
  ELSE ""

\* initiateRazorpayPayment up to rzp.open(): the message handed to onFailure
\* ("" when the modal opens), the create-order requests sent, and the
\* amount in the options of the checkout modal
initiateRazorpayPayment(amount, billNumber, sdkLoaded, keyOk, gatewayOk) ==
  IF ~sdkLoaded \/ ~keyOk
  THEN [failure |-> InitiateFailure(sdkLoaded, keyOk, CreateOrderEndpoint(amount, billNumber, gatewayOk)),
        requests |-> <<>>, created |-> <<>>, optionsAmount |-> 0]
  ELSE LET newOrder == createOrder(amount, billNumber, gatewayOk)
       IN [failure |-> InitiateFailure(sdkLoaded, keyOk, newOrder.requests[1]),
           requests |-> newOrder.requests,
           created |-> newOrder.requests[1].created,
           optionsAmount |-> IF newOrder.threw THEN 0 ELSE newOrder.amount]

\* handlePayment and initiateRazorpayPayment up to the open checkout modal.
\* The Pay button is rendered for an unpaid bill with an id and is disabled
\* while paymentLoading.  Nothing but the gateway's order list is shared
\* before the modal opens, so the awaits before it are taken in one step
HandlePayment(s, sdkLoaded, keyOk, gatewayOk) ==
  /\ billData[s].present
  /\ billData[s].status = "unpaid" /\ billData[s].id # NoId
  /\ ~paymentLoading[s]
  /\ pc[s] = "idle"
  /\ attempts < MaxAttempts
  /\ IF billData[s].isAIEstimate /\ billData[s].id = NoId
     THEN /\ error' = [error EXCEPT ![s] = MsgEstimate]
          /\ UNCHANGED <<paymentLoading, attempt, orders>>
     ELSE LET started == initiateRazorpayPayment(Rupees(billData[s].totalAmount),
                                                 billData[s].id, sdkLoaded,
                                                 keyOk, gatewayOk)
              failure == started.failure
          IN /\ attempts' = attempts + 1
             /\ verifyOutcome' = [verifyOutcome EXCEPT ![s] = None]
             /\ paymentError' = [paymentError EXCEPT ![s] = None]
             /\ billUpdateError' = [billUpdateError EXCEPT ![s] = None]
             /\ IF failure # ""
                THEN /\ onFailure(s, failure)
                     /\ resp' = [resp EXCEPT ![s] = NoResp]
                     /\ UNCHANGED <<orders, pc, closure, order>>
                ELSE /\ paymentLoading' = [paymentLoading EXCEPT ![s] = TRUE]
                     /\ error' = [error EXCEPT ![s] = ""]
                     /\ closure' = [closure EXCEPT ![s] = billData[s]]
                     /\ orders' = orders \o started.created
                     /\ order' = [order EXCEPT ![s] = Len(orders')]
                     /\ pc' = [pc EXCEPT ![s] = "modal"]
                     /\ resp' = [resp EXCEPT ![s] = NoResp]
  /\ UNCHANGED <<store, captured, server, billHistory, useAIEstimate, billData,
                 paymentSuccess, timers>>

\* modal.ondismiss: onFailure(new Error('Payment cancelled by user'))
ModalDismiss(s) ==
  /\ pc[s] = "modal"
  /\ onFailure(s, MsgCancelled)
  /\ EndAttempt(s)
  /\ UNCHANGED <<store, gateway, server, billHistory, useAIEstimate, billData,
                 paymentSuccess, timers, attempts, verifyOutcome, paymentError,
                 billUpdateError>>

\* response.error of a payment.failed event: with the gateway's description,
\* or empty
GatewayErrors ==
  {[description |-> MsgDeclined, reason |-> "payment_failed"],
   [description |-> "", reason |-> ""]}

\* err.description || err.reason || 'Payment failed'
PaymentFailedReason(err) ==
  IF err.description # "" THEN err.description
  ELSE IF err.reason # "" THEN err.reason
  ELSE MsgGatewayFailed

\* rzp.on('payment.failed'): onFailure(new Error(reason)); the checkout
\* stays open for another try
GatewayPaymentFailed(s, err) ==
  /\ pc[s] = "modal"
  /\ onFailure(s, PaymentFailedReason(err))
  /\ UNCHANGED <<store, gateway, server, billHistory, useAIEstimate, billData,
                 paymentSuccess, timers, attempt>>

\* options.handler: onSuccess(response), up to the await of
\* verifyPaymentSignature
handler(s, response) ==
  /\ resp' = [resp EXCEPT ![s] = response]
  /\ pc' = [pc EXCEPT ![s] = "verify"]
  /\ UNCHANGED <<store, orders, server, pageView, attempts, closure, order,
                 verifyOutcome, paymentError, billUpdateError>>

\* the gateway captures the payment of the page's order and the checkout
\* calls options.handler with the signed confirmation
GatewaySuccess(s) ==
  /\ pc[s] = "modal"
  /\ captured' = captured \cup {<<order[s], order[s]>>}
  /\ handler(s, [razorpay_order_id |-> order[s],
                 razorpay_payment_id |-> order[s],
                 razorpay_signature |->
                   HMAC(KeySecret, SignString(order[s], order[s]))])

\* responses a client can hand to options.handler without the gateway: the
\* identifiers of an order with a signature it made up (a corrupted
\* signature), or a confirmation the gateway issued earlier, replayed
InjectedResponses ==
  {[razorpay_order_id |-> o, razorpay_payment_id |-> o,
    razorpay_signature |-> HMAC(ForgerKey, SignString(o, o))] :
     o \in 1..Len(orders)}
  \cup
  {[razorpay_order_id |-> c[1], razorpay_payment_id |-> c[2],
    razorpay_signature |-> HMAC(KeySecret, SignString(c[1], c[2]))] :
     c \in captured}

\* options.handler called with a forged or replayed response
InjectedCallback(s, response) ==
  /\ pc[s] = "modal"
  /\ response \in InjectedResponses
  /\ UNCHANGED captured
  /\ handler(s, response)

\* onSuccess: const verified = await verifyPaymentSignature(...); a false
\* result throws into the catch, and the finally clears paymentLoading
VerifyStep(s, net) ==
  /\ pc[s] = "verify"
  /\ LET verified == verifyPaymentSignature(net, resp[s].razorpay_order_id,
                                            resp[s].razorpay_payment_id,
                                            resp[s].razorpay_signature)
         data == VerifyPaymentEndpoint(resp[s].razorpay_order_id,
                                       resp[s].razorpay_payment_id,
                                       resp[s].razorpay_signature)
     IN /\ verifyOutcome' = [verifyOutcome EXCEPT ![s] =
                               IF net = "down" THEN "unreachable"
                               ELSE IF data.status = 200 /\ data.verified = TRUE
                               THEN "verified" ELSE "rejected"]
        /\ IF ~verified
           THEN /\ error' = [error EXCEPT ![s] = MsgVerificationFailed]
                /\ paymentLoading' = [paymentLoading EXCEPT ![s] = FALSE]
                /\ EndAttempt(s)
           ELSE /\ pc' = [pc EXCEPT ![s] = "insert"]
                /\ UNCHANGED <<error, paymentLoading, closure, order, resp>>
  /\ UNCHANGED <<store, gateway, server, billHistory, useAIEstimate, billData,
                 paymentSuccess, timers, attempts, paymentError, billUpdateError>>

\* the row with the amount taken in paise
PaymentRowInPaise(s) ==
  [bill_id |-> closure[s].id, amount |-> closure[s].totalAmount * 100,
   status |-> "success",
   razorpay_order_id |-> resp[s].razorpay_order_id,
   razorpay_payment_id |-> resp[s].razorpay_payment_id,
   razorpay_signature |-> resp[s].razorpay_signature]

\* the row onSuccess inserts into payments
PaymentRow(s) ==
  [bill_id |-> closure[s].id, amount |-> closure[s].totalAmount,
   status |-> "success",
   razorpay_order_id |-> resp[s].razorpay_order_id,
   razorpay_payment_id |-> resp[s].razorpay_payment_id,
   razorpay_signature |-> resp[s].razorpay_signature]

\* supabase.from('payments').insert(row): no constraint of the table
\* rejects a row, the store itself may fail
InsertPayment(rows, row, storeOk) ==
  IF storeOk THEN Append(rows, row) ELSE rows

\* onSuccess: await supabase.from('payments').insert(...); paymentError is
\* logged and the handler goes on
InsertStep(s, storeOk) ==
  /\ pc[s] = "insert"
  /\ payments' = InsertPayment(payments, PaymentRow(s), storeOk)
  /\ paymentError' = [paymentError EXCEPT ![s] = IF storeOk THEN "null" ELSE "error"]
  /\ pc' = [pc EXCEPT ![s] = "update"]
  /\ UNCHANGED <<bills, gateway, server, pageView, attempts, closure, order,
                 resp, verifyOutcome, billUpdateError>>

\* the bills update writing the settled amounts along with the status
UpdateBillPaidAndCleared(b, id, storeOk) ==
  IF storeOk /\ b[id].status # "absent"
  THEN [b EXCEPT ![id].status = "paid", ![id].tax_amount = 0]
  ELSE b

\* the bills update switching the stored status
UpdateBillToggled(b, id, storeOk) ==
  IF storeOk /\ b[id].status # "absent"
  THEN [b EXCEPT ![id].status = IF @ = "paid" THEN "unpaid" ELSE "paid"]
  ELSE b

\* supabase.from('bills').update({ status: 'paid' }).eq('id', id)
UpdateBillPaid(b, id, storeOk) ==
  IF storeOk /\ b[id].status # "absent"
  THEN [b EXCEPT ![id].status = "paid"]
  ELSE b

\* onSuccess: await the bills update (billUpdateError is logged), then
\* setPaymentSuccess(true), setBillData({ ...billData, status: 'paid' }),
\* await loadBillHistory(), setTimeout(..., 3000) and the finally:
\* setPaymentLoading(false)
UpdateStep(s, storeOk, loadOk) ==
  /\ pc[s] = "update"
  /\ bills' = UpdateBillPaid(bills, closure[s].id, storeOk)
  /\ paymentSuccess' = [paymentSuccess EXCEPT ![s] = TRUE]
  /\ billData' = [billData EXCEPT ![s] = [closure[s] EXCEPT !.status = "paid"]]
  /\ billHistory' = [billHistory EXCEPT ![s] =
                       loadBillHistory(s, bills', loadOk).billHistory]
  /\ useAIEstimate' = [useAIEstimate EXCEPT ![s] =
                         loadBillHistory(s, bills', loadOk).useAIEstimate]
  /\ timers' = [timers EXCEPT ![s] = @ + 1]
  /\ paymentLoading' = [paymentLoading EXCEPT ![s] = FALSE]
  /\ EndAttempt(s)
  /\ billUpdateError' = [billUpdateError EXCEPT ![s] =
                           IF storeOk THEN "null" ELSE "error"]
  /\ UNCHANGED <<payments, gateway, server, error, attempts, verifyOutcome,
                 paymentError>>

\* the setTimeout callback of onSuccess: setPaymentSuccess(false),
\* setBillData(null)
SuccessTimeout(s) ==
  /\ timers[s] > 0
  /\ timers' = [timers EXCEPT ![s] = @ - 1]
  /\ paymentSuccess' = [paymentSuccess EXCEPT ![s] = FALSE]
  /\ billData' = [billData EXCEPT ![s] = NoBill]
  /\ UNCHANGED <<store, gateway, server, billHistory, useAIEstimate, error,
                 paymentLoading, attempt>>

\* the page is reloaded: every useState starts over, pending callbacks of
\* the old page are gone, the mount effect runs again
Reload(s) ==
  /\ billHistory' = [billHistory EXCEPT ![s] = <<>>]
  /\ useAIEstimate' = [useAIEstimate EXCEPT ![s] = FALSE]
  /\ billData' = [billData EXCEPT ![s] = NoBill]
  /\ error' = [error EXCEPT ![s] = ""]
  /\ paymentLoading' = [paymentLoading EXCEPT ![s] = FALSE]
  /\ paymentSuccess' = [paymentSuccess EXCEPT ![s] = FALSE]
  /\ timers' = [timers EXCEPT ![s] = 0]
  /\ verifyOutcome' = [verifyOutcome EXCEPT ![s] = None]
  /\ paymentError' = [paymentError EXCEPT ![s] = None]
  /\ billUpdateError' = [billUpdateError EXCEPT ![s] = None]
  /\ pc' = [pc EXCEPT ![s] = "idle"]
  /\ closure' = [closure EXCEPT ![s] = NoBill]
  /\ order' = [order EXCEPT ![s] = 0]
  /\ resp' = [resp EXCEPT ![s] = NoResp]
  /\ UNCHANGED <<store, gateway, server, attempts>>

----------------------------------------------------------------------------
(* Webhook, src/unnamed/part_001 *)

\* signature headers a sender can attach to a body: none, the gateway's
\* HMAC of the raw body, an HMAC of the re-serialized body, a foreign HMAC
WebhookSignatures(raw) ==
  {Missing, HMAC(GatewayWebhookSecret, raw),
   HMAC(GatewayWebhookSecret, JSONstringify(JSONparse(raw))),
   HMAC(ForgerKey, raw)}

\* the webhook counting every accepted event as a captured payment
WebhookCountingEveryEvent(raw, webhookSignature) ==
  /\ whCount < MaxWebhooks
  /\ whCount' = whCount + 1
  /\ IF ~WebhookSignaturePasses(webhookSecret, raw, webhookSignature)
     THEN /\ whLast' = [raw |-> raw, signature |-> webhookSignature,
                        status |-> 400, event |-> None]
          /\ UNCHANGED whCaptured
     ELSE /\ whLast' = [raw |-> raw, signature |-> webhookSignature,
                        status |-> 200, event |-> JSONparse(raw).event]
          /\ whCaptured' = [whCaptured EXCEPT ![JSONparse(raw).id] = @ + 1]
  /\ UNCHANGED <<store, gateway, webhookSecret, apiLast, pageView, attempt>>

\* POST /api/razorpay/webhook
Webhook(raw, webhookSignature) ==
  /\ whCount < MaxWebhooks
  /\ whCount' = whCount + 1
  /\ IF ~WebhookSignaturePasses(webhookSecret, raw, webhookSignature)
     THEN /\ whLast' = [raw |-> raw, signature |-> webhookSignature,
                        status |-> 400, event |-> None]
          /\ UNCHANGED whCaptured
     ELSE /\ whLast' = [raw |-> raw, signature |-> webhookSignature,
                        status |-> 200, event |-> JSONparse(raw).event]
          /\ whCaptured' =
               IF JSONparse(raw).event = "payment.captured"
               THEN [whCaptured EXCEPT ![JSONparse(raw).id] = @ + 1]
               ELSE whCaptured
  /\ UNCHANGED <<store, gateway, webhookSecret, apiLast, pageView, attempt>>

----------------------------------------------------------------------------
(* Requests made to the payment server directly, src/unnamed/part_001 *)

\* identifiers of a verify-payment body; 0 is a field that was not sent
RequestIds == 0..MaxAttempts

\* signatures of a verify-payment body for the identifiers o, p: none, the
\* gateway's, the gateway's with one character changed, one made with
\* another key, and the gateway's for the identifiers swapped
VerifySignatures(o, p) ==
  {Missing,
   HMAC(KeySecret, SignString(o, p)),
   FlipBit(HMAC(KeySecret, SignString(o, p))),
   HMAC(ForgerKey, SignString(o, p)),
   HMAC(KeySecret, SignString(p, o))}

\* GET /api/health
HealthRequest ==
  /\ apiLast' = [endpoint |-> "health", request |-> <<>>,
                 response |-> HealthEndpoint]
  /\ UNCHANGED <<store, gateway, webhookSecret, whCount, whLast, whCaptured,
                 pageView, attempt>>

\* GET /api/razorpay/key
KeyRequest ==
  /\ apiLast' = [endpoint |-> "key", request |-> <<>>, response |-> KeyEndpoint]
  /\ UNCHANGED <<store, gateway, webhookSecret, whCount, whLast, whCaptured,
                 pageView, attempt>>

\* POST /api/razorpay/verify-payment with the given body
VerifyRequest(orderId, paymentId, signature) ==
  /\ apiLast' = [endpoint |-> "verify-payment",
                 request |-> [razorpay_order_id |-> orderId,
                              razorpay_payment_id |-> paymentId,
                              razorpay_signature |-> signature],
                 response |-> VerifyPaymentEndpoint(orderId, paymentId, signature)]
  /\ UNCHANGED <<store, gateway, webhookSecret, whCount, whLast, whCaptured,
                 pageView, attempt>>

\* POST /api/razorpay/create-order with the given body, while the gateway
\* accepts order creation or not; the gateway keeps the order it created
CreateOrderRequest(amount, notes, gatewayOk) ==
  /\ Len(orders) < MaxAttempts
  /\ LET data == CreateOrderEndpoint(amount, notes, gatewayOk)
     IN /\ apiLast' = [endpoint |-> "create-order",
                       request |-> [amount |-> amount, notes |-> notes,
                                    gatewayOk |-> gatewayOk],
                       response |-> data]
        /\ orders' = orders \o data.created
  /\ UNCHANGED <<store, captured, webhookSecret, whCount, whLast, whCaptured,
                 pageView, attempt>>

\* initiateRazorpayPayment called with an amount, outside any page
InitiatePayment(amount, billNumber, sdkLoaded, keyOk, gatewayOk) ==
  /\ Len(orders) < MaxAttempts
  /\ LET started == initiateRazorpayPayment(amount, billNumber, sdkLoaded,
                                            keyOk, gatewayOk)
     IN /\ apiLast' = [endpoint |-> "initiate",
                       request |-> [amount |-> amount, notes |-> billNumber,
                                    gatewayOk |-> gatewayOk],
                       response |-> started]
        /\ orders' = orders \o started.created
  /\ UNCHANGED <<store, captured, webhookSecret, whCount, whLast, whCaptured,
                 pageView, attempt>>

----------------------------------------------------------------------------
(* Specification *)

\* what the user and the page's own callbacks do around bills on page s
Billing(s) ==
  \/ \E ok \in BOOLEAN : MountLoad(s, ok)
  \/ \E d \in BOOLEAN, m \in PredictedBills, ok \in BOOLEAN, l \in BOOLEAN :
       FetchBillAI(s, d, m, ok, l)
  \/ FetchBillStored(s)
  \/ ClearBill(s)
  \/ Reload(s)

\* a payment attempt on page s
Paying(s) ==
  \/ \E sdk \in BOOLEAN, key \in BOOLEAN, gw \in BOOLEAN :
       HandlePayment(s, sdk, key, gw)
  \/ ModalDismiss(s)
  \/ \E err \in GatewayErrors : GatewayPaymentFailed(s, err)
  \/ GatewaySuccess(s)
  \/ \E r \in InjectedResponses : InjectedCallback(s, r)
  \/ \E net \in {"ok", "down"} : VerifyStep(s, net)
  \/ \E ok \in BOOLEAN : InsertStep(s, ok)
  \/ \E ok \in BOOLEAN, l \in BOOLEAN : UpdateStep(s, ok, l)
  \/ SuccessTimeout(s)

\* the gateway reports a captured payment to the webhook, signed with its
\* webhook secret; it may deliver the same event again
GatewayWebhook ==
  \E c \in captured :
    LET raw == [event |-> "payment.captured", id |-> c[2], form |-> "compact"]
    IN Webhook(raw, HMAC(GatewayWebhookSecret, raw))

\* any sender posts any body with any signature header
AnyWebhook ==
  \E raw \in RawBodies : \E g \in WebhookSignatures(raw) : Webhook(raw, g)

\* one Billing page, the store, the gateway and its webhook deliveries
Next ==
  \/ Billing("pg1")
  \/ Paying("pg1")
  \/ GatewayWebhook

Spec == Init /\ [][Next]_vars

\* one Billing page, the store and the gateway, without webhook deliveries
NextPage ==
  \/ Billing("pg1")
  \/ Paying("pg1")

\* no webhook reaches the server here: one server configuration suffices
InitPage == Init /\ webhookSecret = GatewayWebhookSecret

SpecPage == InitPage /\ [][NextPage]_vars

\* a session of the user that pays the unpaid bill it is shown, with the
\* store, the server and the gateway all answering
PayingSession(s) ==
  \/ MountLoad(s, TRUE)
  \/ FetchBillStored(s)
  \/ HandlePayment(s, TRUE, TRUE, TRUE)
  \/ GatewaySuccess(s)
  \/ VerifyStep(s, "ok")
  \/ InsertStep(s, TRUE)
  \/ UpdateStep(s, TRUE, TRUE)
  \/ SuccessTimeout(s)

\* two sessions of the same user, interleaved at every await
NextSessions == \E s \in Pages : PayingSession(s)

SpecSessions == Init /\ [][NextSessions]_vars

\* the gateway reports a failed payment of an order to the webhook
GatewayFailedWebhook ==
  \E o \in 1..Len(orders) :
    LET raw == [event |-> "payment.failed", id |-> o, form |-> "compact"]
    IN Webhook(raw, HMAC(GatewayWebhookSecret, raw))

\* a page on which attempts are cancelled, fail at the gateway or at order
\* creation, succeed or are replayed, while the bills update and the loads
\* may fail; the SDK, the key endpoint, verify-payment and the payments
\* insert answer
SettledPage(s) ==
  \/ \E ok \in BOOLEAN : MountLoad(s, ok)
  \/ \E m \in PredictedBills, ok \in BOOLEAN : FetchBillAI(s, TRUE, m, ok, TRUE)
  \/ FetchBillStored(s)
  \/ ClearBill(s)
  \/ Reload(s)
  \/ \E gw \in BOOLEAN : HandlePayment(s, TRUE, TRUE, gw)
  \/ ModalDismiss(s)
  \/ \E err \in GatewayErrors : GatewayPaymentFailed(s, err)
  \/ GatewaySuccess(s)
  \/ \E r \in InjectedResponses : InjectedCallback(s, r)
  \/ VerifyStep(s, "ok")
  \/ InsertStep(s, TRUE)
  \/ \E ok \in BOOLEAN, l \in BOOLEAN : UpdateStep(s, ok, l)
  \/ SuccessTimeout(s)

\* one such page, the store, the gateway and its webhook deliveries of
\* failed payments to a server that checks their signature
NextSettled ==
  \/ SettledPage("pg1")
  \/ GatewayFailedWebhook

SpecSettled == InitPage /\ [][NextSettled]_vars

\* the webhook endpoint under arbitrary requests
NextWebhook == AnyWebhook

SpecWebhook == Init /\ [][NextWebhook]_vars

\* the payment server and the frontend utilities under arbitrary requests
NextApi ==
  \/ HealthRequest
  \/ KeyRequest
  \/ \E o \in RequestIds, p \in RequestIds :
       \E g \in VerifySignatures(o, p) : VerifyRequest(o, p, g)
  \/ \E a \in RequestAmounts, gw \in BOOLEAN :
       CreateOrderRequest(a, "B1", gw)
  \/ \E a \in RequestAmounts :
       \E sdk \in BOOLEAN, key \in BOOLEAN, gw \in BOOLEAN :
         InitiatePayment(a, "B1", sdk, key, gw)

SpecApi == Init /\ [][NextApi]_vars

\* status TEXT NOT NULL DEFAULT 'unpaid' CHECK (status IN ('paid', 'unpaid', 'overdue',
\* 'partial'))
BillStatuses == {"paid", "unpaid", "overdue", "partial"}

\* the rows the bills table can hold for a bill: none, or the bill in one
\* of the statuses of the schema
StoredRows(row) ==
  {AbsentRow} \cup {[row EXCEPT !.status = st] : st \in BillStatuses}

\* onSuccess's statement on the bills table, sent for the bill with this id:
\* supabase.from('bills').update({ status: 'paid' }).eq('id', id)
BillStatusUpdate(id, storeOk) ==
  /\ bills' = UpdateBillPaid(bills, id, storeOk)
  /\ UNCHANGED <<payments, gateway, server, pageView, attempt>>

\* a Billing page over a store whose bills are in any status of the schema,
\* and the bills update of a success callback sent against that store
NextStore ==
  \/ \E ok \in BOOLEAN : MountLoad("pg1", ok)
  \/ FetchBillStored("pg1")
  \/ ClearBill("pg1")
  \/ Reload("pg1")
  \/ \E id \in BillIds, ok \in BOOLEAN : BillStatusUpdate(id, ok)

InitStore ==
  /\ bills \in {[b \in BillIds |-> IF b = "B1" THEN r ELSE g] :
                 r \in StoredRows(ImportedBill),
                 g \in StoredRows(GeneratedBill(250))}
  /\ Constructed
  /\ webhookSecret = GatewayWebhookSecret

SpecStore == InitStore /\ [][NextStore]_vars

\* predicted monthly bills the generation is run on
GeneratedTotals == 0..MaxTotal

\* a session of the user fetching bills, with predictions out of totals
Generating(s, totals) ==
  \/ \E ok \in BOOLEAN : MountLoad(s, ok)
  \/ \E d \in BOOLEAN, m \in totals, ok \in BOOLEAN, l \in BOOLEAN :
       FetchBillAI(s, d, m, ok, l)
  \/ FetchBillStored(s)
  \/ ClearBill(s)
  \/ Reload(s)

\* one session generating bills from every prediction
NextGenerate == Generating("pg1", GeneratedTotals)

SpecGenerate == InitPage /\ [][NextGenerate]_vars

\* the predictions of two sessions that fetch a bill in the same month
SessionTotals == {10, 250}

\* two sessions of the same user fetching bills in the same month
NextGenerateSessions == \E s \in Pages : Generating(s, SessionTotals)

SpecGenerateSessions == InitPage /\ [][NextGenerateSessions]_vars

\* the event loop runs every pending continuation and timer of the page; the
\* user, the gateway and the store's failures are under no obligation
Continuations(s) ==
  \/ \E net \in {"ok", "down"} : VerifyStep(s, net)
  \/ \E ok \in BOOLEAN : InsertStep(s, ok)
  \/ \E ok \in BOOLEAN, l \in BOOLEAN : UpdateStep(s, ok, l)
  \/ SuccessTimeout(s)
  \/ \E ok \in BOOLEAN : MountLoad(s, ok)

FairSpec == Spec /\ WF_vars(Continuations("pg1"))

\* the outcomes an open checkout modal reports to its callbacks
ModalOutcome(s) ==
  \/ ModalDismiss(s)
  \/ \E err \in GatewayErrors : GatewayPaymentFailed(s, err)
  \/ GatewaySuccess(s)
  \/ \E r \in InjectedResponses : InjectedCallback(s, r)

\* a page that loads and fetches its bill and then runs payment attempts on
\* every path of handlePayment
AttemptPage(s) ==
  \/ MountLoad(s, TRUE)
  \/ \E m \in PredictedBills : FetchBillAI(s, TRUE, m, TRUE, TRUE)
  \/ FetchBillStored(s)
  \/ Paying(s)

NextAttempt == AttemptPage("pg1")

\* the page with its event loop running and a checkout that reports an
\* outcome as long as it is open
FairSpecAttempt ==
  /\ InitPage /\ [][NextAttempt]_vars
  /\ WF_vars(Continuations("pg1")) /\ WF_vars(ModalOutcome("pg1"))

----------------------------------------------------------------------------
(* Properties *)

\* rows of payments with status success that reference bill b
SuccessRows(b) ==
  {i \in DOMAIN payments :
     payments[i].bill_id = b /\ payments[i].status = "success"}

\* rows of payments for gateway payment p
RowsOfPayment(p) ==
  {i \in DOMAIN payments : payments[i].razorpay_payment_id = p}

\* C1: a step of the success callback of a page turns a bill's stored status
\* into paid only if the verify-payment request of that callback came back
\* with verified = true
ClientPaidOnlyIfVerified ==
  [][\A s \in Pages :
       (pc[s] = "update" /\ pc'[s] = "idle"
        /\ bills[closure[s].id].status # "paid"
        /\ bills'[closure[s].id].status = "paid")
       => verifyOutcome[s] = "verified"]_vars

\* C2: when verify-payment answers that the signature of a success callback
\* is invalid, the step that receives the answer inserts no payment, leaves
\* every bill as stored, ends the attempt, sets the error message and does
\* not signal success
RejectedCallbackChangesNothing ==
  [][\A s \in Pages :
       (pc[s] = "verify" /\ verifyOutcome'[s] = "rejected")
       => /\ payments' = payments
          /\ bills' = bills
          /\ pc'[s] = "idle"
          /\ error'[s] = MsgVerificationFailed
          /\ paymentSuccess'[s] = paymentSuccess[s]
          /\ ~paymentLoading'[s]]_vars

\* C2 witness: a callback was refused by verify-payment, the bill it was for
\* is still unpaid and no payment is stored
RejectedCallbackSeen ==
  \E s \in Pages :
    /\ verifyOutcome[s] = "rejected" /\ pc[s] = "idle"
    /\ error[s] = MsgVerificationFailed
    /\ payments = <<>>
    /\ bills["B1"].status = "unpaid"
    /\ ~paymentSuccess[s]

\* C3: for a callback with a signature verify-payment confirmed, on a bill
\* stored as unpaid: an accepted insert appends exactly one row with the
\* bill's id, the bill's stored total, status success and the callback's
\* order and payment ids, and an accepted update makes the bill paid and
\* adds no further row
VerifiedCallbackRecordsAndPays ==
  [][\A s \in Pages :
       /\ (pc[s] = "insert" /\ pc'[s] = "update"
           /\ verifyOutcome[s] = "verified"
           /\ bills[closure[s].id].status = "unpaid"
           /\ paymentError'[s] = "null")
          => /\ Len(payments') = Len(payments) + 1
             /\ SubSeq(payments', 1, Len(payments)) = payments
             /\ payments'[Len(payments')].bill_id = closure[s].id
             /\ payments'[Len(payments')].amount = bills[closure[s].id].total_amount
             /\ payments'[Len(payments')].status = "success"
             /\ payments'[Len(payments')].razorpay_order_id = resp[s].razorpay_order_id
             /\ payments'[Len(payments')].razorpay_payment_id = resp[s].razorpay_payment_id
             /\ bills' = bills
       /\ (pc[s] = "update" /\ pc'[s] = "idle"
           /\ verifyOutcome[s] = "verified"
           /\ bills[closure[s].id].status = "unpaid"
           /\ billUpdateError'[s] = "null")
          => /\ bills' = [bills EXCEPT ![closure[s].id].status = "paid"]
             /\ payments' = payments]_vars

\* C3 witness: a verified callback for B1 went through both writes
VerifiedCallbackDone ==
  \E s \in Pages :
    /\ pc[s] = "idle" /\ verifyOutcome[s] = "verified"
    /\ paymentError[s] = "null" /\ billUpdateError[s] = "null"
    /\ Len(payments) = 1
    /\ payments[1].bill_id = "B1"
    /\ payments[1].amount = bills["B1"].total_amount
    /\ bills["B1"].status = "paid"

\* C4: once a success payment is stored for a bill and the bills update of
\* the callback has failed, the bill is eventually stored as paid, with a
\* single row for that payment
RecordedPaymentEventuallyPaid ==
  \A b \in BillIds :
    (/\ SuccessRows(b) # {}
     /\ bills[b].status = "unpaid"
     /\ \E s \in Pages : pc[s] = "idle" /\ billUpdateError[s] = "error")
    ~> (/\ bills[b].status = "paid"
        /\ \A i \in SuccessRows(b) :
             Cardinality(RowsOfPayment(payments[i].razorpay_payment_id)) = 1)

\* C5: the payments table holds at most one row per razorpay_payment_id
OneRowPerGatewayPayment ==
  \A p \in PayIds : Cardinality(RowsOfPayment(p)) <= 1

\* the bill a gateway payment is linked to: the bill_number in the notes of
\* its order (pay_k belongs to order_k)
LinkedBill(p) == orders[p].notes

\* C6: once the success callback of a captured payment has run to its end
\* on a page and the webhook has taken a payment.captured event for the same
\* payment, the store holds exactly one row for the payment and the linked
\* bill is paid
CallbackAndWebhookSettleOnce ==
  \A s \in Pages :
    LET o == resp[s].razorpay_order_id
        p == resp[s].razorpay_payment_id
    IN (/\ pc[s] = "idle" /\ billUpdateError[s] # None
        /\ <<o, p>> \in captured
        /\ whCaptured[p] >= 1)
       => /\ Cardinality(RowsOfPayment(p)) = 1
          /\ bills[LinkedBill(p)].status = "paid"

\* C7: after the webhook has taken the same payment.captured event twice,
\* the store holds exactly one row for that payment and the linked bill is
\* paid
WebhookTwiceOneRecord ==
  \A p \in PayIds :
    whCaptured[p] >= 2
    => /\ Cardinality(RowsOfPayment(p)) = 1
       /\ bills[LinkedBill(p)].status = "paid"

\* C8: when the webhook has answered 200 to a payment.captured event, a row
\* for the event's payment id exists and the linked bill is paid
WebhookCapturedEnsuresRecord ==
  (whLast.status = 200 /\ whLast.event = "payment.captured")
  => /\ RowsOfPayment(whLast.raw.id) # {}
     /\ bills[LinkedBill(whLast.raw.id)].status = "paid"

\* the signature header is an HMAC under the gateway's webhook secret of the
\* request body, as sent or as re-serialized
SignedByGateway(request) ==
  \/ request.signature = HMAC(GatewayWebhookSecret, request.raw)
  \/ request.signature =
       HMAC(GatewayWebhookSecret, JSONstringify(JSONparse(request.raw)))

\* C9: a webhook request whose signature header is missing or does not match
\* is answered 400 and no event is dispatched, whether or not the server has
\* a webhook secret configured
WebhookDispatchOnlyIfSigned ==
  (whCount > 0 /\ ~SignedByGateway(whLast))
  => (whLast.status = 400 /\ whLast.event = None)

\* C10: a webhook request whose signature header is the HMAC of its raw body
\* under the server's webhook secret is accepted
WebhookAcceptsRawBodySignature ==
  (/\ whCount > 0
   /\ webhookSecret # NoSecret
   /\ whLast.signature = HMAC(webhookSecret, whLast.raw))
  => whLast.status = 200

\* C11: a verify-payment request with all three fields present is answered
\* 200 with verified = true exactly when its signature is the HMAC of
\* orderId|paymentId under the key secret; every other signature is
\* answered 400 with success = false and verified = false
VerifyAnswersByExactSignature ==
  (/\ apiLast.endpoint = "verify-payment"
   /\ apiLast.request.razorpay_order_id # 0
   /\ apiLast.request.razorpay_payment_id # 0
   /\ apiLast.request.razorpay_signature # Missing)
  => LET genuine ==
           apiLast.request.razorpay_signature =
             HMAC(KeySecret, SignString(apiLast.request.razorpay_order_id,
                                        apiLast.request.razorpay_payment_id))
     IN IF genuine
        THEN /\ apiLast.response.status = 200
             /\ apiLast.response.verified = TRUE
        ELSE /\ apiLast.response.status = 400
             /\ apiLast.response.verified = FALSE
             /\ ~apiLast.response.success

\* C11 witness: a genuine signature for two different identifiers was
\* answered verified = true
GenuineSignatureVerified ==
  /\ apiLast.endpoint = "verify-payment"
  /\ apiLast.request.razorpay_order_id = 1
  /\ apiLast.request.razorpay_payment_id = 2
  /\ apiLast.request.razorpay_signature = HMAC(KeySecret, SignString(1, 2))
  /\ apiLast.response.status = 200
  /\ apiLast.response.verified = TRUE

\* the amount of a request is missing, zero or negative
InvalidAmount(amount) == ~amount.present \/ amount.milli <= 0

\* C12: a create-order request whose amount is missing, zero or negative is
\* answered 400, makes no razorpay.orders.create call and leaves the
\* gateway's orders as they were
InvalidAmountRefused ==
  [][(apiLast'.endpoint = "create-order"
      /\ InvalidAmount(apiLast'.request.amount))
     => /\ apiLast'.response.status = 400
        /\ apiLast'.response.asked = <<>>
        /\ orders' = orders]_vars

\* C12 witness: a negative amount was refused while the gateway would have
\* accepted the order
NegativeAmountRefused ==
  /\ apiLast.endpoint = "create-order"
  /\ apiLast.request.amount = Number(-10)
  /\ apiLast.request.gatewayOk
  /\ apiLast.response.status = 400
  /\ orders = <<>>

\* n is the integer nearest to milli / 10, the paise of milli thousandths
NearestPaise(n, milli) ==
  /\ 10 * n - milli <= 5
  /\ milli - 10 * n <= 5
  /\ (milli % 10 = 0) => 10 * n = milli

\* C13: for an amount above zero, create-order makes its one gateway call
\* with the amount in paise, rounded to the nearest integer, and
\* initiateRazorpayPayment opens the checkout with the amount of the order
\* the gateway returned
OrderAmountInPaise ==
  /\ (apiLast.endpoint = "create-order"
      /\ ~InvalidAmount(apiLast.request.amount))
     => /\ Len(apiLast.response.asked) = 1
        /\ NearestPaise(apiLast.response.asked[1].amount,
                        apiLast.request.amount.milli)
  /\ (apiLast.endpoint = "initiate" /\ apiLast.response.failure = "")
     => /\ Len(apiLast.response.created) = 1
        /\ NearestPaise(apiLast.response.created[1].amount,
                        apiLast.request.amount.milli)
        /\ apiLast.response.optionsAmount = apiLast.response.created[1].amount
        /\ orders[Len(orders)].amount = apiLast.response.optionsAmount

\* C13 witness: the checkout was opened for 1375.50 rupees with 137550
\* paise
CheckoutOpenedInPaise ==
  /\ apiLast.endpoint = "initiate"
  /\ apiLast.request.amount = Number(1375500)
  /\ apiLast.response.failure = ""
  /\ apiLast.response.optionsAmount = 137550

\* C14: a create-order request with a valid amount makes exactly one
\* gateway call; when the gateway refuses, the answer is 500 with the
\* upstream message and no order exists, and initiateRazorpayPayment hands
\* that message to onFailure after a single create-order request
OneGatewayCallNoRetry ==
  /\ (apiLast.endpoint = "create-order"
      /\ ~InvalidAmount(apiLast.request.amount))
     => /\ Len(apiLast.response.asked) = 1
        /\ ~apiLast.request.gatewayOk
           => /\ apiLast.response.status = 500
              /\ ~apiLast.response.success
              /\ apiLast.response.message = MsgUpstream
              /\ apiLast.response.created = <<>>
  /\ apiLast.endpoint = "initiate"
     => /\ Len(apiLast.response.requests) <= 1
        /\ \A i \in DOMAIN apiLast.response.requests :
             Len(apiLast.response.requests[i].asked) <= 1
        /\ (/\ Len(apiLast.response.requests) = 1
            /\ ~InvalidAmount(apiLast.request.amount)
            /\ ~apiLast.request.gatewayOk)
           => /\ apiLast.response.failure = MsgUpstream
              /\ apiLast.response.created = <<>>
              /\ apiLast.response.optionsAmount = 0

\* C14 witness: the gateway refused the order of a started payment, which
\* ended in onFailure with the upstream message after one request
GatewayRefusalReported ==
  /\ apiLast.endpoint = "initiate"
  /\ apiLast.request.amount = Number(13750)
  /\ ~apiLast.request.gatewayOk
  /\ Len(apiLast.response.requests) = 1
  /\ apiLast.response.requests[1].status = 500
  /\ apiLast.response.failure = MsgUpstream

\* C15: a verify-payment request without an order id, a payment id or a
\* signature is answered 400 with success = false, whatever the other
\* fields are
MissingFieldRefused ==
  (/\ apiLast.endpoint = "verify-payment"
   /\ \/ apiLast.request.razorpay_order_id = 0
      \/ apiLast.request.razorpay_payment_id = 0
      \/ apiLast.request.razorpay_signature = Missing)
  => /\ apiLast.response.status = 400
     /\ ~apiLast.response.success

\* C15 witness: a request without payment id, signed by the key secret for
\* the identifiers it does carry, was answered 400
RequestWithoutPaymentIdRefused ==
  /\ apiLast.endpoint = "verify-payment"
  /\ apiLast.request.razorpay_order_id = 1
  /\ apiLast.request.razorpay_payment_id = 0
  /\ apiLast.request.razorpay_signature = HMAC(KeySecret, SignString(1, 0))
  /\ apiLast.response.status = 400

HandledEvents == {"payment.captured", "payment.failed", "order.paid"}

\* C17: a webhook request that passes the signature check with an event the
\* switch has no case for is answered 200 and changes nothing but the
\* record of the request itself
UnhandledEventIgnored ==
  [][(/\ whCount' = whCount + 1
      /\ WebhookSignaturePasses(webhookSecret, whLast'.raw, whLast'.signature)
      /\ JSONparse(whLast'.raw).event \notin HandledEvents)
     => /\ whLast'.status = 200
        /\ store' = store
        /\ gateway' = gateway
        /\ whCaptured' = whCaptured
        /\ webhookSecret' = webhookSecret
        /\ pageView' = pageView
        /\ attempt' = attempt]_vars

\* C17 witness: a server with a webhook secret accepted a signed
\* invoice.paid event
UnhandledEventAccepted ==
  /\ webhookSecret # NoSecret
  /\ whLast.status = 200
  /\ whLast.event = "invoice.paid"
  /\ whCaptured = [p \in PayIds |-> 0]

OneSuccessPaymentPerBill ==
  \A b \in BillIds : Cardinality(SuccessRows(b)) <= 1

\* C20: a bill stored as paid is stored as paid after every step
PaidStaysPaid ==
  [][\A b \in BillIds :
       bills[b].status = "paid" => bills'[b].status = "paid"]_vars

\* C20 witness: with B1 paid, a later attempt has been cancelled on the page
\* and the webhook has taken a payment.failed event
PaidAfterFailures ==
  /\ bills["B1"].status = "paid"
  /\ whLast.status = 200 /\ whLast.event = "payment.failed"
  /\ \E s \in Pages : error[s] = MsgCancelled /\ pc[s] = "idle"

CheckoutOnlyForStoredUnpaidBill ==
  [][\A s \in Pages :
       (pc[s] = "idle" /\ pc'[s] = "modal")
       => /\ ~billData[s].isAIEstimate
          /\ bills[billData[s].id].status = "unpaid"]_vars

PaidBillHasSuccessPayment ==
  [][\A s \in Pages :
       (/\ pc[s] = "update" /\ verifyOutcome[s] = "verified"
        /\ bills[closure[s].id].status = "unpaid"
        /\ bills'[closure[s].id].status = "paid")
       => \E i \in SuccessRows(closure[s].id) :
            payments[i].razorpay_payment_id = resp[s].razorpay_payment_id]_vars

\* C25: the page shows 'Payment Successful' and the bill as paid only when
\* the payments insert and the bills update both returned without error
SuccessShownOnlyAfterBothWrites ==
  [][\A s \in Pages :
       (pc[s] = "update" /\ pc'[s] = "idle"
          /\ (paymentSuccess'[s] \/ billData'[s].status = "paid"))
       => /\ paymentError[s] = "null"
          /\ billUpdateError'[s] = "null"]_vars

\* C26: the generated bill row has total_amount equal to the sum of its
\* energy, fixed, tax and other charges, and no charge is negative
GeneratedChargesSumToTotal ==
  bills["AI"].status # "absent"
  => /\ bills["AI"].total_amount =
          bills["AI"].energy_charges + bills["AI"].fixed_charges
          + bills["AI"].tax_amount + bills["AI"].other_charges
     /\ bills["AI"].energy_charges >= 0 /\ bills["AI"].fixed_charges >= 0
     /\ bills["AI"].tax_amount >= 0 /\ bills["AI"].other_charges >= 0

\* C26 witness: a generated bill of 10 rupees, whose energy and fixed
\* charges both round up and leave no tax
GeneratedBillWithoutTax ==
  /\ bills["AI"].status = "unpaid" /\ bills["AI"].total_amount = 10
  /\ bills["AI"].energy_charges = 9 /\ bills["AI"].fixed_charges = 1
  /\ bills["AI"].tax_amount = 0

\* C27: once the generated bill of the month is stored, a further
\* generation in any session leaves the bills table as it is and shows an
\* estimate without id, for which the Pay button is not rendered
SecondGenerationOnlyEstimates ==
  [][\A s \in Pages :
       (/\ bills["AI"].status # "absent"
        /\ ~billData[s].present /\ billData'[s].present
        /\ billData'[s].isAIEstimate)
       => /\ bills' = bills
          /\ billData'[s].id = NoId]_vars

\* C27 witness: one session shows the generated bill it stored, the other
\* generated again with another prediction and shows an estimate without id
SecondSessionShowsEstimate ==
  /\ billData["pg1"].present /\ billData["pg1"].id = "AI"
  /\ billData["pg2"].present /\ billData["pg2"].id = NoId
  /\ billData["pg2"].totalAmount # bills["AI"].total_amount

\* C28: the success callback of a verified confirmation sets a bill to paid
\* only when the confirmed order was created for that bill and its amount
PaidOnlyByOrderOfBill ==
  [][\A s \in Pages :
       (/\ pc[s] = "update" /\ verifyOutcome[s] = "verified"
        /\ bills[closure[s].id].status = "unpaid"
        /\ bills'[closure[s].id].status = "paid")
       => /\ orders[resp[s].razorpay_order_id].notes = closure[s].id
          /\ orders[resp[s].razorpay_order_id].amount
               = closure[s].totalAmount * 100]_vars

\* C29: once onFailure has been called for an open checkout (the page is
\* no longer loading while the modal of the attempt is open), no further
\* callback of that attempt runs: no second onFailure and no onSuccess
OneOutcomePerAttempt ==
  [][\A s \in Pages :
       (pc[s] = "modal" /\ ~paymentLoading[s])
       => ~ \/ ModalDismiss(s)
            \/ \E err \in GatewayErrors : GatewayPaymentFailed(s, err)
            \/ GatewaySuccess(s)
            \/ \E r \in InjectedResponses : InjectedCallback(s, r)]_vars

\* C30: a page that is loading for a payment stops loading on every path
\* of the attempt, and no payment is started from a page while it is loading
AttemptEndsLoading ==
  /\ \A s \in Pages : paymentLoading[s] ~> ~paymentLoading[s]
  /\ [][\A s \in Pages :
          paymentLoading[s]
          => ~ \E sdk \in BOOLEAN, key \in BOOLEAN, gw \in BOOLEAN :
                 HandlePayment(s, sdk, key, gw)]_vars

\* C30 witness: an attempt whose two store writes failed is over and the
\* page is no longer loading
LoadingEndedAfterStoreErrors ==
  /\ pc["pg1"] = "idle" /\ ~paymentLoading["pg1"]
  /\ verifyOutcome["pg1"] = "verified"
  /\ paymentError["pg1"] = "error" /\ billUpdateError["pg1"] = "error"

====
